---- MODULE Spec2Model ----
(***************************************************************************)
(* Model of the CREATE3 vanity-salt search of src/src/main.rs: the address *)
(* derivation get_deployed, the pattern test is_valid_address, and the two *)
(* search strategies find_salt_sequential and find_salt_parallel.          *)
(*                                                                         *)
(* Strings are sequences of one-character strings; byte strings are        *)
(* sequences of numbers 0..255.  Option<T> is a record with a field `some'.*)
(***************************************************************************)
EXTENDS Integers, Sequences, FiniteSets, TLC

(***************************************************************************)
(* Bounds of the model.                                                    *)
(***************************************************************************)
\* largest max_attempts the command line is given
MaxAttempts == 9
\* largest value num_cpus::get() returns
MaxThreads == 2
\* the batch size, 10000 in the source, scaled so that whole batches are enumerated
ChunkScale == 3
\* the progress display period, 1000 in the source, scaled likewise
DisplayScale == 2

(***************************************************************************)
(* Option<T>                                                               *)
(***************************************************************************)
None == [some |-> FALSE]
Some(v) == [some |-> TRUE, val |-> v]

(***************************************************************************)
(* Strings and hexadecimal                                                 *)
(***************************************************************************)
HexChars == <<"0","1","2","3","4","5","6","7","8","9","a","b","c","d","e","f">>

Rep(c, n) == [i \in 1..n |-> c]

\* str::to_lowercase on one character (the ASCII letters the model uses)
LowerChar(c) ==
    CASE c = "A" -> "a" [] c = "B" -> "b" [] c = "C" -> "c" [] c = "D" -> "d"
      [] c = "E" -> "e" [] c = "F" -> "f" [] c = "X" -> "x" [] c = "Z" -> "z"
      [] OTHER -> c

to_lowercase(s) == [i \in 1..Len(s) |-> LowerChar(s[i])]

starts_with(s, p) == Len(p) <= Len(s) /\ SubSeq(s, 1, Len(p)) = p

ends_with(s, p) == Len(p) <= Len(s) /\ SubSeq(s, Len(s) - Len(p) + 1, Len(s)) = p

\* the value of each hex digit, either case
HexValOf ==
    ("0" :> 0) @@ ("1" :> 1) @@ ("2" :> 2) @@ ("3" :> 3) @@ ("4" :> 4) @@ ("5" :> 5)
    @@ ("6" :> 6) @@ ("7" :> 7) @@ ("8" :> 8) @@ ("9" :> 9)
    @@ ("a" :> 10) @@ ("b" :> 11) @@ ("c" :> 12) @@ ("d" :> 13) @@ ("e" :> 14) @@ ("f" :> 15)
    @@ ("A" :> 10) @@ ("B" :> 11) @@ ("C" :> 12) @@ ("D" :> 13) @@ ("E" :> 14) @@ ("F" :> 15)

\* value of one hex digit; -1 when the character is no hex digit
HexVal(c) == IF c \in DOMAIN HexValOf THEN HexValOf[c] ELSE -1

\* hex::encode: two lowercase digits per byte
hex_encode(bytes) ==
    [i \in 1..(2 * Len(bytes)) |->
        LET b == bytes[(i + 1) \div 2]
        IN  IF i % 2 = 1 THEN HexChars[(b \div 16) + 1] ELSE HexChars[(b % 16) + 1]]

\* hex::decode: Err on an odd length or a character that is no hex digit
hex_decode(s) ==
    IF Len(s) % 2 = 1 \/ (\E i \in 1..Len(s) : HexVal(s[i]) = -1)
    THEN [ok |-> FALSE, val |-> <<>>]
    ELSE [ok |-> TRUE,
          val |-> [i \in 1..(Len(s) \div 2) |-> 16 * HexVal(s[2 * i - 1]) + HexVal(s[2 * i])]]

\* the slice s[n..]: panics (ok = FALSE) when n is beyond the end of s
SliceFrom(s, n) ==
    IF n > Len(s) THEN [ok |-> FALSE, val |-> <<>>]
    ELSE [ok |-> TRUE, val |-> SubSeq(s, n + 1, Len(s))]

\* hex::decode(&s[2..]).unwrap(): ok = FALSE stands for the panic
DecodeFrom2(s) ==
    LET sl == SliceFrom(s, 2)
    IN  IF sl.ok THEN hex_decode(sl.val) ELSE [ok |-> FALSE, val |-> <<>>]

(***************************************************************************)
(* keccak256 is a library function; the model replaces it by a small       *)
(* deterministic digest of the whole input (every byte and the length),    *)
(* 32 bytes long.                                                          *)
(***************************************************************************)
\* the contribution of byte i to the digest state, 0 beyond the end
Term(bytes, i) == IF i <= Len(bytes) THEN (bytes[i] + 1) * (2 * i + 1) ELSE 0

\* the digest state of bytes[lo..], eight bytes at a time
RECURSIVE Absorb(_, _, _)
Absorb(bytes, lo, h) ==
    IF lo > Len(bytes) THEN h
    ELSE Absorb(bytes, lo + 8,
                (h * 131 + Term(bytes, lo) + Term(bytes, lo + 1) + Term(bytes, lo + 2)
                 + Term(bytes, lo + 3) + Term(bytes, lo + 4) + Term(bytes, lo + 5)
                 + Term(bytes, lo + 6) + Term(bytes, lo + 7)) % 65521)

keccak256(bytes) ==
    LET h == Absorb(bytes, 1, 7 + 257 * Len(bytes))
    IN  [i \in 1..32 |-> ((h + 13 * i) * (2 * i + 1) + (h \div (i + 1))) % 256]

(***************************************************************************)
(* The fixed deployment identity                                           *)
(***************************************************************************)
PROXY_BYTECODE ==
    <<"0","x","6","7","3","6","3","d","3","d","3","7","3","6","3","d","3","4",
      "f","0","3","d","5","2","6","0","0","8","6","0","1","8","f","3">>

PROXY_BYTECODE_HASH == keccak256(DecodeFrom2(PROXY_BYTECODE).val)

FACTORY_ADDRESS ==
    <<"0","x","9","3","F","E","C","2","C","0","0","B","f","E","9","0","2","F",
      "7","3","3","B","5","7","c","5","a","6","C","e","e","D","7","C","D","1",
      "3","8","4","A","E","1">>

\* hex::decode(&FACTORY_ADDRESS[2..]).unwrap()
FACTORY_BYTES == DecodeFrom2(FACTORY_ADDRESS).val

\* mutant of get_deployed: the one-byte trailer of the second hop is left out
get_deployed_no_trailer(salt) ==
    LET packed == <<255>> \o FACTORY_BYTES \o salt \o PROXY_BYTECODE_HASH
        encode1 == keccak256(packed)
        proxy == <<"0", "x">> \o hex_encode(SubSeq(encode1, 13, 32))
        packed2 == <<214, 148>> \o DecodeFrom2(proxy).val
        encoded2 == keccak256(packed2)
    IN  <<"0", "x">> \o hex_encode(SubSeq(encoded2, 13, 32))

get_deployed(salt) ==
    LET packed == <<255>> \o FACTORY_BYTES \o salt \o PROXY_BYTECODE_HASH
        encode1 == keccak256(packed)
        proxy == <<"0", "x">> \o hex_encode(SubSeq(encode1, 13, 32))
        packed2 == <<214, 148>> \o DecodeFrom2(proxy).val \o <<1>>
        encoded2 == keccak256(packed2)
    IN  <<"0", "x">> \o hex_encode(SubSeq(encoded2, 13, 32))

\* mutant of is_valid_address: the fragments are compared as typed, not lowercased
is_valid_address_cased(address, sw, ew) ==
    IF ~sw.some /\ ~ew.some THEN TRUE
    ELSE LET address_lower == to_lowercase(address)
         IN  CASE sw.some /\ ew.some ->
                    starts_with(address_lower, sw.val) /\ ends_with(address_lower, ew.val)
               [] sw.some /\ ~ew.some -> starts_with(address_lower, sw.val)
               [] ~sw.some /\ ew.some -> ends_with(address_lower, ew.val)
               [] OTHER -> TRUE

is_valid_address(address, sw, ew) ==
    IF ~sw.some /\ ~ew.some THEN TRUE
    ELSE LET address_lower == to_lowercase(address)
         IN  CASE sw.some /\ ew.some ->
                    starts_with(address_lower, to_lowercase(sw.val))
                    /\ ends_with(address_lower, to_lowercase(ew.val))
               [] sw.some /\ ~ew.some -> starts_with(address_lower, to_lowercase(sw.val))
               [] ~sw.some /\ ew.some -> ends_with(address_lower, to_lowercase(ew.val))
               [] OTHER -> TRUE

(***************************************************************************)
(* Inputs: the command line (struct Args), the random values thread_rng    *)
(* yields, and the number of logical processors.                           *)
(***************************************************************************)
\* a well-formed creator, the marker followed by 40 hex digits
CreatorMarked == <<"0", "x", "C", "0">> \o Rep("1", 36) \o <<"f", "e">>
\* the same 20 bytes written without the marker
CreatorBare == SubSeq(CreatorMarked, 3, 42)
\* the marker followed by characters that are no hex digits
CreatorNotHex == <<"0", "x", "z", "z">>
\* a string shorter than the marker
CreatorShort == <<"0">>

Creators == {CreatorMarked, CreatorBare, CreatorNotHex, CreatorShort}

\* --starts-with / --ends-with as typed; "zz" is no hexadecimal
Patterns ==
    { <<None, None>>,
      <<Some(<<"F", "A">>), None>>,
      <<None, Some(<<"2", "D">>)>>,
      <<Some(<<"F">>), Some(<<"C", "E">>)>>,
      <<None, Some(<<"z", "z">>)>> }

\* the 32-byte values the random source yields
RandomSalts == { [i \in 1..32 |-> (b * i) % 256] : b \in {11, 13} }

\* --max-attempts: none, fewer than, as many as and more than the workers
Budgets == {0, 1, 2, MaxAttempts}

\* the command lines: every pattern with the well-formed creator, and the other
\* creators without a pattern
ArgsSet ==
    [creator : {CreatorMarked}, pattern : Patterns, max_attempts : Budgets,
     silent : BOOLEAN, parallel : BOOLEAN]
    \cup
    [creator : Creators \ {CreatorMarked}, pattern : {<<None, None>>},
     max_attempts : Budgets, silent : BOOLEAN, parallel : BOOLEAN]

\* main: the options handed to find_salt; starts_with gets the marker prepended
main_options(args) ==
    [creator |-> args.creator,
     starts_with |-> IF args.pattern[1].some
                     THEN Some(<<"0", "x">> \o args.pattern[1].val) ELSE None,
     ends_with |-> args.pattern[2],
     max_attempts |-> args.max_attempts,
     silent |-> args.silent,
     parallel |-> args.parallel]

chunk_size == ChunkScale

display_period == DisplayScale

VARIABLES
    options,            \* FindSaltOptions, never changed
    pc,                 \* "find_salt", "seq_loop", "par_run", "returned", "panicked"
    result,             \* the Option<SaltResult> find_salt returns
    attempts,           \* find_salt_sequential: attempts
    salt,               \* find_salt_sequential: salt of the last iteration
    address,            \* find_salt_sequential: address of the last iteration
    num_threads,        \* find_salt_parallel: num_cpus::get()
    attempts_per_thread,
    creator_bytes,
    progress,           \* the value inside the Mutex
    lock,               \* the worker holding the Mutex, or 0
    wpc,                \* per worker: "idle", "run", "lock", "locked", "found", "exhausted"
    wattempts,          \* per worker: attempts
    wi,                 \* per worker: iterations of the current batch done
    packed,             \* per worker: the scratch buffer
    waddr,              \* per worker: address of the last attempt
    wresult,            \* per worker: what the closure returned
    shown,              \* the totals printed as progress, in order
    hashes,             \* keccak256 calls made so far
    derivations,        \* get_deployed calls made so far
    draws,              \* random values drawn so far
    late_batches        \* per worker: batches begun while a sibling had already
                        \* matched, counted up to 2

vars == <<options, pc, result, attempts, salt, address, num_threads, attempts_per_thread,
          creator_bytes, progress, lock, wpc, wattempts, wi, packed, waddr, wresult,
          shown, hashes, derivations, draws, late_batches>>

seqvars == <<attempts, salt, address>>

parvars == <<num_threads, attempts_per_thread, creator_bytes, progress, lock, wpc,
             wattempts, wi, packed, waddr, wresult, shown, late_batches>>

Workers == 1..MaxThreads

Init ==
    /\ \E a \in ArgsSet : options = main_options(a)
    /\ pc = "find_salt"
    /\ result = None
    /\ attempts = 0
    /\ salt = <<>>
    /\ address = <<>>
    /\ num_threads = 0
    /\ attempts_per_thread = 0
    /\ creator_bytes = <<>>
    /\ progress = 0
    /\ lock = 0
    /\ wpc = [w \in Workers |-> "idle"]
    /\ wattempts = [w \in Workers |-> 0]
    /\ wi = [w \in Workers |-> 0]
    /\ packed = [w \in Workers |-> <<>>]
    /\ waddr = [w \in Workers |-> <<>>]
    /\ wresult = [w \in Workers |-> None]
    /\ shown = <<>>
    /\ hashes = 0
    /\ derivations = 0
    /\ draws = 0
    /\ late_batches = [w \in Workers |-> 0]

\* keccak256 calls of one attempt: the working salt, the two of get_deployed, and
\* the first use of PROXY_BYTECODE_HASH, which computes it
HashesOfAttempt(derived) == 3 + (IF derived = 0 THEN 1 ELSE 0)

\* mutant of AttemptResult: the result is returned without the test
AttemptResultUntested(raw, addr) ==
    Some([salt |-> <<"0", "x">> \o hex_encode(raw), address |-> addr])

\* mutant of AttemptResult: the hashed working salt is reported instead of the
\* random value
AttemptResultHashedSalt(raw, addr) ==
    IF is_valid_address(addr, options.starts_with, options.ends_with)
    THEN Some([salt |-> <<"0", "x">>
                        \o hex_encode(keccak256(DecodeFrom2(options.creator).val \o raw)),
               address |-> addr])
    ELSE None

\* what an attempt returns: the result carrying the random value and the address
\* when the address is valid, nothing otherwise
AttemptResult(raw, addr) ==
    IF is_valid_address(addr, options.starts_with, options.ends_with)
    THEN Some([salt |-> <<"0", "x">> \o hex_encode(raw), address |-> addr])
    ELSE None

(***************************************************************************)
(* find_salt and find_salt_sequential                                      *)
(***************************************************************************)
\* find_salt, not parallel: enter find_salt_sequential
FindSaltSequential ==
    /\ pc = "find_salt"
    /\ ~options.parallel
    /\ pc' = "seq_loop"
    /\ UNCHANGED <<options, result, seqvars, parvars, hashes, derivations, draws>>

\* mutant of SeqContinue: the budget is tested with <=
SeqContinueInclusive(att) == att <= options.max_attempts

\* mutant of SeqContinue: the loop stops one attempt early
SeqContinueShort(att) == att + 1 < options.max_attempts

\* mutant of SeqContinue: the first iteration is made before the budget is tested
SeqContinueDoWhile(att) == att = 0 \/ att < options.max_attempts

\* the condition of the while loop
SeqContinue(att) == att < options.max_attempts

\* one iteration of the while loop
SeqIteration ==
    /\ pc = "seq_loop"
    /\ SeqContinue(attempts)
    /\ \E r \in RandomSalts :
         LET creator == DecodeFrom2(options.creator)
             hex_salt == keccak256(creator.val \o r)
             addr == get_deployed(hex_salt)
             res == AttemptResult(r, addr)
         IN  /\ attempts' = attempts + 1
             /\ salt' = r
             /\ draws' = draws + 1
             /\ IF ~creator.ok
                THEN /\ pc' = "panicked"
                     /\ UNCHANGED <<address, result, hashes, derivations>>
                ELSE /\ address' = addr
                     /\ hashes' = hashes + HashesOfAttempt(derivations)
                     /\ derivations' = derivations + 1
                     /\ result' = res
                     /\ pc' = IF res.some THEN "returned" ELSE "seq_loop"
    /\ UNCHANGED <<options, parvars>>

\* the loop condition fails: return None
SeqExhausted ==
    /\ pc = "seq_loop"
    /\ ~SeqContinue(attempts)
    /\ pc' = "returned"
    /\ result' = None
    /\ UNCHANGED <<options, seqvars, parvars, hashes, derivations, draws>>

(***************************************************************************)
(* find_salt_parallel.  find_map_any runs the closure once per item of     *)
(* 0..num_threads, on the pool's threads in no fixed order; an item not yet *)
(* started when some closure has returned Some is never started, a closure *)
(* that is running runs to its own return, and the call returns when no    *)
(* closure is running.                                                     *)
(***************************************************************************)
Found == \E w \in Workers : wpc[w] = "found"

\* find_salt, parallel: the setup of find_salt_parallel before the fan-out
FindSaltParallel ==
    /\ pc = "find_salt"
    /\ options.parallel
    /\ \E n \in 1..MaxThreads :
         LET creator == DecodeFrom2(options.creator)
         IN  /\ num_threads' = n
             /\ attempts_per_thread' = options.max_attempts \div n
             /\ progress' = 0
             /\ IF creator.ok
                THEN /\ creator_bytes' = creator.val
                     /\ pc' = "par_run"
                ELSE /\ creator_bytes' = creator_bytes
                     /\ pc' = "panicked"
    /\ UNCHANGED <<options, result, seqvars, lock, wpc, wattempts, wi, packed, waddr,
                   wresult, shown, hashes, derivations, draws, late_batches>>

\* mutant of NextPos: the share is tested after every attempt, not once per batch
NextPosPerAttempt(att, done) ==
    IF att >= attempts_per_thread THEN [pc |-> "exhausted", i |-> done]
    ELSE IF done < chunk_size THEN [pc |-> "run", i |-> done]
    ELSE [pc |-> "run", i |-> 0]

\* where a closure stands once `done' iterations of its batch are over and no
\* match was returned: in the batch, at the next batch, or out of the while loop
NextPos(att, done) ==
    IF done < chunk_size THEN [pc |-> "run", i |-> done]
    ELSE IF att < attempts_per_thread THEN [pc |-> "run", i |-> 0]
    ELSE [pc |-> "exhausted", i |-> done]

\* rng.fill(&mut packed[n..]): the bytes after the first n are replaced
Fill(buf, n, r) == [i \in 1..Len(buf) |-> IF i <= n THEN buf[i] ELSE r[i - n]]

\* the closure starts: its locals, and the first test of the while condition
WorkerStart(w) ==
    /\ pc = "par_run"
    /\ w <= num_threads
    /\ wpc[w] = "idle"
    /\ ~Found
    /\ packed' = [packed EXCEPT ![w] = creator_bytes \o Rep(0, 32)]
    /\ wattempts' = [wattempts EXCEPT ![w] = 0]
    /\ LET pos == IF 0 < attempts_per_thread
                  THEN [pc |-> "run", i |-> 0] ELSE [pc |-> "exhausted", i |-> 0]
       IN  /\ wpc' = [wpc EXCEPT ![w] = pos.pc]
           /\ wi' = [wi EXCEPT ![w] = pos.i]
    /\ UNCHANGED <<options, pc, result, seqvars, num_threads, attempts_per_thread,
                   creator_bytes, progress, lock, waddr, wresult, shown, hashes,
                   derivations, draws, late_batches>>

\* the test of the address and what follows it: return Some, or go on
WorkerTest(w, buf, addr, att, done) ==
    LET res == AttemptResult(SubSeq(buf, Len(creator_bytes) + 1, Len(buf)), addr)
        pos == NextPos(att, done)
    IN  /\ wresult' = [wresult EXCEPT ![w] = res]
        /\ wpc' = [wpc EXCEPT ![w] = IF res.some THEN "found" ELSE pos.pc]
        /\ wi' = [wi EXCEPT ![w] = IF res.some THEN done ELSE pos.i]

\* one iteration of the for loop up to the progress block (and, when silent,
\* through the test, since the progress block is skipped)
WorkerAttempt(w) ==
    /\ pc = "par_run"
    /\ wpc[w] = "run"
    /\ \E r \in RandomSalts :
         LET buf == Fill(packed[w], Len(creator_bytes), r)
             hex_salt == keccak256(buf)
             addr == get_deployed(hex_salt)
         IN  /\ packed' = [packed EXCEPT ![w] = buf]
             /\ waddr' = [waddr EXCEPT ![w] = addr]
             /\ wattempts' = [wattempts EXCEPT ![w] = @ + 1]
             /\ IF options.silent
                THEN WorkerTest(w, buf, addr, wattempts[w] + 1, wi[w] + 1)
                ELSE /\ wpc' = [wpc EXCEPT ![w] = "lock"]
                     /\ wi' = [wi EXCEPT ![w] = @ + 1]
                     /\ UNCHANGED wresult
    /\ draws' = draws + 1
    /\ hashes' = hashes + HashesOfAttempt(derivations)
    /\ derivations' = derivations + 1
    /\ late_batches' = [late_batches EXCEPT ![w] = IF Found /\ wi[w] = 0 /\ @ < 2 THEN @ + 1 ELSE @]
    /\ UNCHANGED <<options, pc, result, seqvars, num_threads, attempts_per_thread,
                   creator_bytes, progress, lock, shown>>

\* progress.lock(): waits until the mutex is free
WorkerLock(w) ==
    /\ pc = "par_run"
    /\ wpc[w] = "lock"
    /\ lock = 0
    /\ lock' = w
    /\ wpc' = [wpc EXCEPT ![w] = "locked"]
    /\ UNCHANGED <<options, pc, result, seqvars, num_threads, attempts_per_thread,
                   creator_bytes, progress, wattempts, wi, packed, waddr, wresult,
                   shown, hashes, derivations, draws, late_batches>>

\* mutant of WorkerCount: the total is read before the lock is taken, so an
\* increment made while another closure waits for the lock is overwritten
WorkerCountLost(w) ==
    /\ pc = "par_run"
    /\ wpc[w] = "locked"
    /\ progress' = IF \E v \in Workers : v # w /\ wpc[v] = "lock"
                   THEN progress ELSE progress + 1
    /\ shown' = IF progress' # progress /\ progress' % display_period = 0
                THEN Append(shown, progress') ELSE shown
    /\ lock' = 0
    /\ WorkerTest(w, packed[w], waddr[w], wattempts[w], wi[w])
    /\ UNCHANGED <<options, pc, result, seqvars, num_threads, attempts_per_thread,
                   creator_bytes, wattempts, packed, waddr, hashes, derivations, draws,
                   late_batches>>

\* mutant of WorkerCount: the display test is made on the total before the increment
WorkerCountPrintsBefore(w) ==
    /\ pc = "par_run"
    /\ wpc[w] = "locked"
    /\ progress' = progress + 1
    /\ shown' = IF progress % display_period = 0
                THEN Append(shown, progress + 1) ELSE shown
    /\ lock' = 0
    /\ WorkerTest(w, packed[w], waddr[w], wattempts[w], wi[w])
    /\ UNCHANGED <<options, pc, result, seqvars, num_threads, attempts_per_thread,
                   creator_bytes, wattempts, packed, waddr, hashes, derivations, draws,
                   late_batches>>

\* mutant of WorkerCount: the lock guard outlives the progress block
WorkerCountKeepsLock(w) ==
    /\ pc = "par_run"
    /\ wpc[w] = "locked"
    /\ progress' = progress + 1
    /\ shown' = IF (progress + 1) % display_period = 0
                THEN Append(shown, progress + 1) ELSE shown
    /\ lock' = lock
    /\ WorkerTest(w, packed[w], waddr[w], wattempts[w], wi[w])
    /\ UNCHANGED <<options, pc, result, seqvars, num_threads, attempts_per_thread,
                   creator_bytes, wattempts, packed, waddr, hashes, derivations, draws,
                   late_batches>>

\* mutant of WorkerCount: the closure's own attempt count is also advanced in the
\* progress block, so that it depends on the silent flag
WorkerCountCountsAttempt(w) ==
    /\ pc = "par_run"
    /\ wpc[w] = "locked"
    /\ progress' = progress + 1
    /\ shown' = IF (progress + 1) % display_period = 0
                THEN Append(shown, progress + 1) ELSE shown
    /\ lock' = 0
    /\ wattempts' = [wattempts EXCEPT ![w] = @ + 1]
    /\ WorkerTest(w, packed[w], waddr[w], wattempts[w] + 1, wi[w])
    /\ UNCHANGED <<options, pc, result, seqvars, num_threads, attempts_per_thread,
                   creator_bytes, packed, waddr, hashes, derivations, draws,
                   late_batches>>

\* under the lock: count, print every display_period-th total, release; then the test
WorkerCount(w) ==
    /\ pc = "par_run"
    /\ wpc[w] = "locked"
    /\ progress' = progress + 1
    /\ shown' = IF (progress + 1) % display_period = 0
                THEN Append(shown, progress + 1) ELSE shown
    /\ lock' = 0
    /\ WorkerTest(w, packed[w], waddr[w], wattempts[w], wi[w])
    /\ UNCHANGED <<options, pc, result, seqvars, num_threads, attempts_per_thread,
                   creator_bytes, wattempts, packed, waddr, hashes, derivations, draws,
                   late_batches>>

\* mutant of ParReturn: the salt and the address of the result are taken from
\* closures chosen independently
ParReturnMixed ==
    /\ pc = "par_run"
    /\ \A w \in 1..num_threads :
         \/ wpc[w] \in {"found", "exhausted"}
         \/ wpc[w] = "idle" /\ Found
    /\ IF Found
       THEN \E v \in Workers, w \in Workers :
                /\ wpc[v] = "found"
                /\ wpc[w] = "found"
                /\ result' = Some([salt |-> wresult[v].val.salt,
                                   address |-> wresult[w].val.address])
       ELSE result' = None
    /\ pc' = "returned"
    /\ UNCHANGED <<options, seqvars, parvars, hashes, derivations, draws>>

\* find_map_any returns: no closure is running and none will be started
ParReturn ==
    /\ pc = "par_run"
    /\ \A w \in 1..num_threads :
         \/ wpc[w] \in {"found", "exhausted"}
         \/ wpc[w] = "idle" /\ Found
    /\ IF Found
       THEN \E w \in Workers : wpc[w] = "found" /\ result' = wresult[w]
       ELSE result' = None
    /\ pc' = "returned"
    /\ UNCHANGED <<options, seqvars, parvars, hashes, derivations, draws>>

Next ==
    \/ FindSaltSequential
    \/ SeqIteration
    \/ SeqExhausted
    \/ FindSaltParallel
    \/ \E w \in Workers : WorkerStart(w)
    \/ \E w \in Workers : WorkerAttempt(w)
    \/ \E w \in Workers : WorkerLock(w)
    \/ \E w \in Workers : WorkerCount(w)
    \/ ParReturn

Spec == Init /\ [][Next]_vars

\* the sequential strategy alone
InitSeq == Init /\ ~options.parallel

NextSeq ==
    \/ FindSaltSequential
    \/ SeqIteration
    \/ SeqExhausted

SpecSeq == InitSeq /\ [][NextSeq]_vars

\* the parallel strategy alone
InitPar == Init /\ options.parallel

NextPar ==
    \/ FindSaltParallel
    \/ \E w \in Workers : WorkerStart(w)
    \/ \E w \in Workers : WorkerAttempt(w)
    \/ \E w \in Workers : WorkerLock(w)
    \/ \E w \in Workers : WorkerCount(w)
    \/ ParReturn

SpecPar == InitPar /\ [][NextPar]_vars

(***************************************************************************)
(* Properties                                                              *)
(***************************************************************************)
\* WorkerAttempt(w) can be taken: ENABLED <<WorkerAttempt(w)>>_vars written out
AttemptEnabled(w) == pc = "par_run" /\ wpc[w] = "run"

\* the parallel strategy with its scheduling: every closure the thread pool has
\* started keeps running on its thread, a closure still to be started is started
\* while none has matched, and the call returns once no closure is running.  Each
\* conjunct is weak fairness of one step; that of WorkerAttempt(w) is written out
\* with AttemptEnabled(w).
ParFairness ==
    /\ WF_vars(FindSaltParallel)
    /\ WF_vars(ParReturn)
    /\ \A w \in Workers :
         /\ WF_vars(WorkerStart(w))
         /\ WF_vars(WorkerLock(w))
         /\ WF_vars(WorkerCount(w))
         /\ ([]<>(~AttemptEnabled(w)) \/ []<><<WorkerAttempt(w)>>_vars)

SpecParFair == InitPar /\ [][NextPar]_vars /\ ParFairness

Valid(addr) == is_valid_address(addr, options.starts_with, options.ends_with)

RECURSIVE SumAttempts(_)
SumAttempts(n) == IF n = 0 THEN 0 ELSE wattempts[n] + SumAttempts(n - 1)

\* attempts made by all workers together
TotalAttempts == SumAttempts(MaxThreads)

\* C1: a result is returned exactly when the attempt's address was valid: a returned
\* result carries a valid address, the address of the attempt that produced it; a
\* search that goes on, or that returns nothing, has just seen an invalid address;
\* and the parallel call returns a result exactly when some worker matched.
C1_ResultIffValid ==
    /\ (pc = "returned" /\ result.some) => Valid(result.val.address)
    /\ (~options.parallel /\ pc = "returned" /\ result.some)
          => result.val.address = address
    /\ (~options.parallel /\ pc \in {"seq_loop", "returned"} /\ attempts > 0 /\ ~result.some)
          => ~Valid(address)
    /\ \A w \in Workers :
          /\ wpc[w] = "found"
                => /\ Valid(waddr[w])
                   /\ wresult[w].some
                   /\ wresult[w].val.address = waddr[w]
          /\ (wpc[w] \in {"run", "exhausted"} /\ wattempts[w] > 0)
                => ~Valid(waddr[w]) /\ ~wresult[w].some
    /\ (options.parallel /\ pc = "returned") => (result.some <=> Found)

\* a parallel search with a pattern returned the result of a worker that matched
\* after an attempt that did not
C1_Witness ==
    /\ pc = "returned"
    /\ options.parallel
    /\ options.ends_with.some
    /\ result.some
    /\ \E w \in Workers : wpc[w] = "found" /\ wattempts[w] > 1 /\ result = wresult[w]

\* C2: the attempts of all workers together never exceed max_attempts by more than
\* one batch.
C2_BudgetWithinOneBatch ==
    options.parallel => TotalAttempts <= options.max_attempts + chunk_size

\* C3: once a worker has matched, every other worker makes at most the rest of its
\* batch and starts no further one: no worker begins two batches while a sibling has
\* already matched (of which the first may be the one it stood at).
C3_StopsAfterCurrentBatch ==
    \A w \in Workers : late_batches[w] <= 1

\* C4: in the sequential search the derivations made so far are as many as the
\* attempts counted (one fewer when the iteration panicked before its derivation)
\* and never more than max_attempts.
C4_DerivationsWithinBudget ==
    ~options.parallel =>
        /\ derivations <= options.max_attempts
        /\ attempts <= options.max_attempts
        /\ pc # "panicked" => derivations = attempts
        /\ pc = "panicked" => derivations = attempts - 1

\* the sequential search has used its whole budget of several attempts
C4_Witness ==
    /\ ~options.parallel
    /\ pc = "seq_loop"
    /\ options.max_attempts = MaxAttempts
    /\ attempts = options.max_attempts
    /\ derivations = MaxAttempts

\* C5: a sequential search that returns no result has made exactly max_attempts
\* attempts, and each of them was derived and found invalid.
C5_ExhaustedAfterExactlyBudget ==
    (~options.parallel /\ pc = "returned" /\ ~result.some)
        => /\ attempts = options.max_attempts
           /\ derivations = options.max_attempts
           /\ draws = options.max_attempts

\* the sequential search returned nothing for a pattern no candidate satisfies
C5_Witness ==
    /\ ~options.parallel
    /\ pc = "returned"
    /\ ~result.some
    /\ options.ends_with.some
    /\ options.max_attempts = MaxAttempts
    /\ attempts = MaxAttempts

\* C6: the sequential search with max_attempts = 0 computes no hash, derives no
\* address, draws no random value and ends with no result, whatever the pattern and
\* the creator.
C6_ZeroBudgetDoesNothing ==
    (~options.parallel /\ options.max_attempts = 0)
        => /\ hashes = 0
           /\ derivations = 0
           /\ draws = 0
           /\ attempts = 0
           /\ pc \in {"find_salt", "seq_loop", "returned"}
           /\ ~result.some

\* the sequential search with max_attempts = 0 returned, with a creator that does
\* not decode
C6_Witness ==
    /\ ~options.parallel
    /\ options.max_attempts = 0
    /\ options.creator = CreatorNotHex
    /\ pc = "returned"

\* the last 32 bytes of a worker's buffer
Trailing(buf) == SubSeq(buf, Len(buf) - 31, Len(buf))

\* C7: the reported salt is the marker followed by the hex of the 32 random bytes of
\* the matching attempt (in the parallel search the trailing 32 bytes of the
\* matching worker's buffer), and the reported address is
\* get_deployed(keccak256(creator bytes ++ those 32 bytes)) in both strategies.
C7_ReportedSaltIsRandomValue ==
    (pc = "returned" /\ result.some) =>
        LET raw == DecodeFrom2(result.val.salt)
            creator == DecodeFrom2(options.creator).val
        IN  /\ raw.ok
            /\ Len(raw.val) = 32
            /\ SubSeq(result.val.salt, 1, 2) = <<"0", "x">>
            /\ result.val.address = get_deployed(keccak256(creator \o raw.val))
            /\ ~options.parallel => raw.val = salt
            /\ options.parallel =>
                   \E w \in Workers :
                       /\ wpc[w] = "found"
                       /\ result = wresult[w]
                       /\ raw.val = Trailing(packed[w])
                       /\ result.val.address = waddr[w]

\* a parallel search of two workers with a prefix pattern returned the result of a
\* worker that matched after an attempt that did not
C7_Witness ==
    /\ pc = "returned"
    /\ result.some
    /\ options.parallel
    /\ options.starts_with.some
    /\ num_threads = 2
    /\ \E w \in Workers : wpc[w] = "found" /\ wattempts[w] > 1

\* the 20 bytes a creator string denotes, with or without the marker
CreatorDenoted(s) ==
    IF Len(s) >= 2 /\ SubSeq(s, 1, 2) = <<"0", "x">>
    THEN hex_decode(SubSeq(s, 3, Len(s))) ELSE hex_decode(s)

\* C8: the creator bytes fed into the hash are the bytes the creator string denotes,
\* whether it is written with the marker or without.
C8_CreatorNormalized ==
    /\ (options.parallel /\ pc \in {"par_run", "returned"})
          => creator_bytes = CreatorDenoted(options.creator).val
    /\ (~options.parallel /\ pc \in {"seq_loop", "returned"} /\ attempts > 0)
          => address = get_deployed(keccak256(CreatorDenoted(options.creator).val \o salt))

\* some character of s is no hex digit
NotHex(s) == \E i \in 1..Len(s) : HexVal(s[i]) = -1

\* the options are malformed: the creator, with or without the marker, is no
\* hexadecimal byte string, or a pattern fragment is no hexadecimal
Malformed ==
    \/ ~CreatorDenoted(options.creator).ok
    \/ options.starts_with.some /\ NotHex(SubSeq(options.starts_with.val, 3, Len(options.starts_with.val)))
    \/ options.ends_with.some /\ NotHex(options.ends_with.val)

\* C9: with malformed options no attempt is counted, no random value is drawn, no
\* derivation is made, and the run ends neither in a result nor in "no match".
C9_MalformedAbortsAtSetup ==
    Malformed => /\ attempts = 0
                 /\ TotalAttempts = 0
                 /\ draws = 0
                 /\ derivations = 0
                 /\ pc # "returned"

\* C10: each worker's share is max_attempts divided by the number of workers, rounded
\* down, and a parallel search that finds nothing has made at most max_attempts
\* attempts in all, fewer than one per worker short of it.
C10_RemainderDropped ==
    (options.parallel /\ pc \in {"par_run", "returned"}) =>
        /\ attempts_per_thread * num_threads <= options.max_attempts
        /\ options.max_attempts < (attempts_per_thread + 1) * num_threads
        /\ (pc = "returned" /\ ~result.some) =>
               /\ TotalAttempts <= options.max_attempts
               /\ options.max_attempts - TotalAttempts < num_threads

\* the uppercase form of a character (the letters the model uses)
UpperChar(c) ==
    CASE c = "a" -> "A" [] c = "b" -> "B" [] c = "c" -> "C" [] c = "d" -> "D"
      [] c = "e" -> "E" [] c = "f" -> "F" [] c = "x" -> "X" [] c = "z" -> "Z"
      [] OTHER -> c

to_uppercase(s) == [i \in 1..Len(s) |-> UpperChar(s[i])]

\* p is a prefix of a, letter case ignored
PrefixIgnoringCase(p, a) ==
    Len(p) <= Len(a) /\ \A i \in 1..Len(p) : LowerChar(p[i]) = LowerChar(a[i])

\* p is a suffix of a, letter case ignored
SuffixIgnoringCase(p, a) ==
    Len(p) <= Len(a)
    /\ \A i \in 1..Len(p) : LowerChar(p[i]) = LowerChar(a[Len(a) - Len(p) + i])

\* prefix and suffix fragments the matcher is tried on: absent, matching and not
\* matching the addresses met, in either case, and one that is no hexadecimal
TestPrefixes ==
    {None, Some(<<"0", "x", "F", "A">>), Some(<<"0", "x", "f", "a">>),
     Some(<<"0", "X", "f">>), Some(<<"0", "x", "F", "0">>), Some(<<"f", "a">>)}

TestSuffixes ==
    {None, Some(<<"2", "D">>), Some(<<"2", "d">>), Some(<<"C", "E">>),
     Some(<<"9", "2", "D">>), Some(<<"z", "z">>)}

\* C11: is_valid_address is true exactly when (the prefix is absent or the address
\* starts with it) and (the suffix is absent or the address ends with it), letter
\* case ignored; it is true with both absent, and the outcome is the same for the
\* address and the fragments written in upper or lower case.  Checked on every
\* address the search derives, with every pair of test fragments.
C11_MatchesExactly ==
    address # <<>> =>
        /\ is_valid_address(address, None, None)
        /\ \A sw \in TestPrefixes, ew \in TestSuffixes :
             LET expected == /\ (~sw.some \/ PrefixIgnoringCase(sw.val, address))
                             /\ (~ew.some \/ SuffixIgnoringCase(ew.val, address))
                 up(o) == IF o.some THEN Some(to_uppercase(o.val)) ELSE None
                 low(o) == IF o.some THEN Some(to_lowercase(o.val)) ELSE None
             IN  /\ is_valid_address(address, sw, ew) = expected
                 /\ is_valid_address(to_uppercase(address), sw, ew) = expected
                 /\ is_valid_address(address, up(sw), up(ew)) = expected
                 /\ is_valid_address(address, low(sw), low(ew)) = expected

\* the search returned an address that matches an uppercase prefix and suffix
C11_Witness ==
    /\ pc = "returned"
    /\ result.some
    /\ options.starts_with = Some(<<"0", "x", "F">>)
    /\ options.ends_with = Some(<<"C", "E">>)
    /\ is_valid_address(address, options.starts_with, options.ends_with)
    /\ ~is_valid_address(address, Some(<<"0", "x", "F", "0">>), None)

\* the factory address as bytes
FactoryBytes ==
    <<147, 254, 194, 192, 11, 254, 144, 47, 115, 59, 87, 197, 166, 206, 237, 124,
      209, 56, 74, 225>>

\* the last 20 bytes of a 32-byte digest
Last20(digest) == SubSeq(digest, 13, 32)

\* the lowercase hex digits
LowerHexDigits == {HexChars[k] : k \in 1..16}

Pending == {w \in Workers : wpc[w] \in {"lock", "locked"}}

C14_DisplayedMultiples ==
    (options.parallel /\ ~options.silent) =>
        shown = [i \in 1..(progress \div display_period) |-> i * display_period]

\* two closures have both counted attempts and at least two totals were displayed
C14_Witness ==
    /\ options.parallel
    /\ ~options.silent
    /\ wattempts[1] >= 1
    /\ wattempts[2] >= 1
    /\ Len(shown) >= 2
    /\ progress % display_period # 0

\* the closures that returned a match
Matched == {w \in Workers : wpc[w] = "found"}

\* C15: when two or more closures matched, the call returns one result, and its
\* salt and its address are the random bytes and the address of one and the same
\* attempt, the last of one of the closures that matched.
C15_PairOfOneMatchedWorker ==
    (options.parallel /\ pc = "returned" /\ Cardinality(Matched) >= 2) =>
        /\ result.some
        /\ \E w \in Matched :
             /\ result.val.salt = <<"0", "x">> \o hex_encode(Trailing(packed[w]))
             /\ result.val.address = waddr[w]
             /\ waddr[w] = get_deployed(keccak256(packed[w]))

\* two closures matched with different pairs and the pair of the second was returned
C15_Witness ==
    /\ options.parallel
    /\ pc = "returned"
    /\ Matched = {1, 2}
    /\ wresult[1] # wresult[2]
    /\ result = wresult[2]

\* as C15_Witness, with the pair of the first closure returned
C15_WitnessFirst ==
    /\ options.parallel
    /\ pc = "returned"
    /\ Matched = {1, 2}
    /\ wresult[1] # wresult[2]
    /\ result = wresult[1]

\* C16: the buffer of every started closure is 52 bytes, the 20 creator bytes
\* followed by 32 bytes; a step leaves the leading creator bytes of every buffer as
\* they were, and a step in which one closure makes an attempt leaves the buffer and
\* the attempt count of every other closure unchanged.
C16_PrivateBufferFrame ==
    [][options.parallel =>
          \A w \in Workers :
              /\ wpc'[w] # "idle" =>
                    /\ Len(packed'[w]) = 52
                    /\ SubSeq(packed'[w], 1, 20) = CreatorDenoted(options.creator).val
              /\ (wpc[w] # "idle" /\ wpc'[w] # "idle") =>
                    SubSeq(packed'[w], 1, 20) = SubSeq(packed[w], 1, 20)
              /\ wattempts'[w] # wattempts[w] =>
                    \A v \in Workers \ {w} :
                        /\ packed'[v] = packed[v]
                        /\ wattempts'[v] = wattempts[v]
                        /\ wi'[v] = wi[v]]_vars

\* C17: under fair scheduling every call ends (it returns, or panicked at setup);
\* when it returns every closure that started has returned a match or exhausted
\* its share and none is waiting for the lock; and at no time does a closure that
\* is not in its progress block hold the lock.
C17_Terminates ==
    /\ <>(pc \in {"returned", "panicked"})
    /\ [](pc = "returned" =>
            /\ lock = 0
            /\ \A w \in Workers : wpc[w] \in {"idle", "found", "exhausted"}
            /\ \A w \in Workers : wpc[w] = "idle" => (Found \/ w > num_threads))
    /\ [](\A w \in Workers : wpc[w] # "locked" => lock # w)

\* the call returned after two closures, both counting progress under the lock,
\* ran their shares out without a match
C17_Witness ==
    /\ options.parallel
    /\ ~options.silent
    /\ pc = "returned"
    /\ ~result.some
    /\ wpc = <<"exhausted", "exhausted">>
    /\ wattempts[1] > chunk_size
    /\ wattempts[2] > chunk_size
    /\ lock = 0

RoundedUpToBatch(n) == ((n + chunk_size - 1) \div chunk_size) * chunk_size

\* no pattern is configured
NoPattern == ~options.starts_with.some /\ ~options.ends_with.some

\* C19: a closure that ran out without a match made its share
\* floor(max_attempts / W) rounded up to a whole number of batches, none when
\* the share is 0; a parallel call with 0 < max_attempts < W returns no result
\* after no attempt, pattern or not; a sequential call with no pattern and
\* max_attempts >= 1 returns a result after exactly one attempt.
C19_ExhaustedInWholeBatches ==
    /\ options.parallel =>
          /\ \A w \in Workers :
               wpc[w] = "exhausted" =>
                   /\ wattempts[w] = RoundedUpToBatch(options.max_attempts \div num_threads)
                   /\ wattempts[w] % chunk_size = 0
                   /\ (options.max_attempts \div num_threads = 0) => wattempts[w] = 0
          /\ (pc \in {"par_run", "returned"}
              /\ 0 < options.max_attempts /\ options.max_attempts < num_threads) =>
                   /\ draws = 0
                   /\ TotalAttempts = 0
                   /\ \A w \in Workers : wpc[w] \in {"idle", "exhausted"}
                   /\ pc = "returned" => ~result.some
    /\ (~options.parallel /\ NoPattern /\ options.max_attempts >= 1
        /\ pc = "returned") =>
          /\ result.some
          /\ attempts = 1
          /\ draws = 1

\* a parallel call of two workers with one attempt allowed and no pattern returned
\* no result, both closures having run out at once
C19_Witness ==
    /\ options.parallel
    /\ NoPattern
    /\ options.max_attempts = 1
    /\ num_threads = 2
    /\ wpc = <<"exhausted", "exhausted">>
    /\ pc = "returned"
    /\ ~result.some

\* a closure ran out after a share that is no whole number of batches
C19_WitnessRounded ==
    /\ options.parallel
    /\ \E w \in Workers :
         /\ wpc[w] = "exhausted"
         /\ (options.max_attempts \div num_threads) % chunk_size # 0
         /\ wattempts[w] > options.max_attempts \div num_threads

====
